---- MODULE Spec2Model ----
(***************************************************************************)
(* Model of bin/record.py: the record-and-replay harness of playsuipi/core. *)
(* The harness spawns the target, replays the transcript file (load), then  *)
(* records operator moves (store).  The target process and the operator are *)
(* the environment.  Files and byte streams are sequences of tokens.        *)
(***************************************************************************)
EXTENDS Integers, Sequences, FiniteSets, TLC

\* ------------------------------------------------------------------ bounds
\* Initial transcript files: every token sequence of at most this length
\* (and the example transcripts, and the long ones).
MaxInitLen == 2
\* Long initial transcripts have Limit - Near .. Limit + Near lines.
Near == 1
\* Operator inputs read per run of the model.
MaxCapture == 2
\* Times the harness is started again on the file the last session left.
MaxRestarts == 1

\* --------------------------------------------------------------- constants
\* check_end: count >= 8 * 12
Limit == 8 * 12
\* check_end: for _ in range(7)
SummaryLines == 7

NL == "\n"
SP == " "
\* The tokens a transcript file or an operator line is made of.
Chars == {"a", "b", SP, NL}
Whitespace == {SP, NL}

\* INPUT_YOUR_MOVE = b"> Input your move below:\n"
INPUT_YOUR_MOVE == <<"> Input your move below:", NL>>
\* What the target renders before the delimiter, and one line of its summary.
BoardText == <<"board", NL>>
ScoreLine == <<"score", NL>>
\* The target is deterministic: what it renders is a function of the moves
\* it has received (here: of the last one).
Board(ms) == IF ms = <<>> THEN BoardText ELSE <<"board">> \o ms[Len(ms)] \o <<NL>>

\* ----------------------------------------------------------- pure helpers
RECURSIVE FileLines(_)
\* Python's iteration over a text file ("for x in f"): the content cut after
\* each newline, so that each line keeps its terminator and a last line
\* without terminator is yielded when it is not empty.  Computed by halves.
FileLines(f) ==
  IF Len(f) = 0 THEN <<>>
  ELSE IF Len(f) = 1 THEN <<f>>
  ELSE LET h == Len(f) \div 2
           L == FileLines(SubSeq(f, 1, h))
           R == FileLines(SubSeq(f, h + 1, Len(f)))
       IN IF f[h] = NL THEN L \o R
          ELSE SubSeq(L, 1, Len(L) - 1) \o <<L[Len(L)] \o R[1]>> \o Tail(R)

RECURSIVE LStrip(_)
LStrip(s) == IF s # <<>> /\ Head(s) \in Whitespace THEN LStrip(Tail(s)) ELSE s

RECURSIVE RStrip(_)
RStrip(s) ==
  IF s # <<>> /\ s[Len(s)] \in Whitespace THEN RStrip(SubSeq(s, 1, Len(s) - 1)) ELSE s

\* str.strip()
Strip(s) == RStrip(LStrip(s))

\* Faulty variant: the file opened in mode "w", which truncates it.
WriteTruncate(f, m) == <<NL>> \o m

\* f.write("\n" + x.strip()) on a file opened in append mode
WriteAppend(f, m) == f \o <<NL>> \o m

\* Smallest index at which pat occurs in s, 0 when it does not.
FindSeq(s, pat) ==
  LET hits == {i \in 1..(Len(s) - Len(pat) + 1) : SubSeq(s, i, i + Len(pat) - 1) = pat}
  IN IF hits = {} THEN 0 ELSE CHOOSE i \in hits : \A j \in hits : i <= j

\* io.recvuntil(delim): the buffered output up to and including the delimiter.
HasDelim(buf, delim) == FindSeq(buf, delim) # 0
RecvUntil(buf, delim) == SubSeq(buf, 1, FindSeq(buf, delim) + Len(delim) - 1)
AfterRecvUntil(buf, delim) == SubSeq(buf, FindSeq(buf, delim) + Len(delim), Len(buf))

\* io.recvline(): the buffered output up to and including the first newline.
HasLine(buf) == FindSeq(buf, <<NL>>) # 0
RecvLine(buf) == RecvUntil(buf, <<NL>>)
AfterRecvLine(buf) == AfterRecvUntil(buf, <<NL>>)

\* str.replace("\n", "")
DropNewlines(s) == SelectSeq(s, LAMBDA c : c # NL)

\* print(s): the string followed by a newline
Printed(s) == s \o <<NL>>

\* n copies of s
Repeat(s, n) == [i \in 1..(n * Len(s)) |-> s[((i - 1) % Len(s)) + 1]]

SeqsUpTo(S, n) == UNION {[1..k -> S] : k \in 0..n}

\* ------------------------------------------------------------------ state
VARIABLES
  exists,     \* whether the file at log_path exists
  file,       \* its content
  pc,         \* the harness's position
  err,        \* the exception that ended the harness, "none" otherwise
  failedAt,   \* the position at which it was raised
  count,      \* the global count
  lines,      \* the lines "for x in f" iterates over
  i,          \* how many of them the for statement has handed out
  x,          \* the local x of load and of store
  drained,    \* summary lines read by check_end
  chan,       \* "open" until io.close()
  sent,       \* the arguments of io.sendline so far: the target's input
  out,        \* target output not yet received by the harness
  tgt,        \* "running" or "exited"
  prompts,    \* prompts the target has emitted
  summary,    \* summary lines the target has emitted
  tgtFault,   \* the target died early, or prompted after Limit moves
  opQuit,     \* the operator closed the console
  shown,      \* the received output the harness printed, one entry per print call
  trace,      \* the harness's I/O events, in order
  file0,      \* the file's content when the session started
  appended,   \* the strings written by store, in order
  captures,   \* operator inputs read so far, over all sessions
  gen,        \* sessions started before this one
  prev        \* what the previous session sent, wrote and printed in Playback

vars == <<exists, file, pc, err, failedAt, count, lines, i, x, drained, chan, sent,
          out, tgt, prompts, summary, tgtFault, opQuit, shown, trace, file0,
          appended, captures, gen, prev>>

harnessVars == <<exists, file, pc, err, failedAt, count, lines, i, x, drained, chan,
                 sent, shown, trace, appended, captures, opQuit, gen, prev>>

\* What the operator may type on one line.
Inputs == {<<"a">>, <<SP, "b", SP>>, <<>>}

\* The transcript of two moves of the example scenario, with and without a
\* newline at its end.
ExampleFiles == {<<"a", NL, "b">>, <<"a", NL, "b", NL>>}

ShortFiles == SeqsUpTo(Chars, MaxInitLen) \cup ExampleFiles
LongFiles ==
  {Repeat(<<"a", NL>>, n) : n \in (Limit - Near)..(Limit + Near)}
InitFiles == ShortFiles \cup LongFiles

NoSession ==
  [file0 |-> <<>>, sent |-> <<>>, appended |-> <<>>, replayed |-> FALSE,
   shown |-> <<>>]

Init ==
  /\ exists \in BOOLEAN
  /\ file \in (IF exists THEN InitFiles ELSE {<<>>})
  /\ file0 = file
  /\ pc = "start"
  /\ err = "none"
  /\ failedAt = "none"
  /\ count = 0
  /\ lines = <<>>
  /\ i = 0
  /\ x = <<>>
  /\ drained = 0
  /\ chan = "open"
  /\ sent = <<>>
  /\ out = <<>>
  /\ tgt = "running"
  /\ prompts = 0
  /\ summary = 0
  /\ tgtFault = FALSE
  /\ opQuit = FALSE
  /\ shown = <<>>
  /\ trace = <<>>
  /\ appended = <<>>
  /\ captures = 0
  /\ gen = 0
  /\ prev = NoSession

\* ---------------------------------------------------------------- harness
\* An uncaught exception: the traceback ends the process.
Raise(e) ==
  /\ pc' = "crashed"
  /\ err' = e
  /\ failedAt' = pc

\* Faulty variant: check_end() testing "count > 8 * 12".
check_endOffByOne(c) == IF c > Limit THEN "drain" ELSE "cap_recv"

\* check_end(), as the position that follows it: the drain loop when the
\* count has reached the limit, else the return to __main__, which calls
\* store().
check_end(c) == IF c >= Limit THEN "drain" ELSE "cap_recv"

\* Faulty variant: the loop sends the next line without waiting for a prompt.
ForNextNoPrompt(ls, k, c) == IF k >= Len(ls) THEN check_end(c) ELSE "pb_send"

\* The head of "for x in f": the next line, or the end of the loop and the
\* call of check_end().
ForNext(ls, k, c) == IF k >= Len(ls) THEN check_end(c) ELSE "pb_recv"

\* Faulty variant: load() passes over the lines that are blank once trimmed.
LoadSkipBlank ==
  /\ pc = "start"
  /\ \/ /\ ~exists
        /\ Raise("FileNotFoundError")
        /\ UNCHANGED <<lines, i, x>>
     \/ /\ exists
        /\ lines' = SelectSeq(FileLines(file), LAMBDA l : Strip(l) # <<>>)
        /\ pc' = ForNext(lines', 0, count)
        /\ x' = IF lines' = <<>> THEN x ELSE lines'[1]
        /\ i' = IF lines' = <<>> THEN 0 ELSE 1
        /\ UNCHANGED <<err, failedAt>>
  /\ UNCHANGED <<exists, file, count, drained, chan, sent, out, tgt, prompts,
                 summary, tgtFault, opQuit, shown, trace, gen, prev, file0, appended, captures>>

\* load(): open(log_path, "r") and the first step of the for loop.
Load ==
  /\ pc = "start"
  /\ \/ /\ ~exists
        /\ Raise("FileNotFoundError")
        /\ UNCHANGED <<lines, i, x>>
     \/ /\ exists
        /\ lines' = FileLines(file)
        /\ pc' = ForNext(lines', 0, count)
        /\ x' = IF lines' = <<>> THEN x ELSE lines'[1]
        /\ i' = IF lines' = <<>> THEN 0 ELSE 1
        /\ UNCHANGED <<err, failedAt>>
  /\ UNCHANGED <<exists, file, count, drained, chan, sent, out, tgt, prompts,
                 summary, tgtFault, opQuit, shown, trace, gen, prev, file0, appended, captures>>

\* Faulty variant: the EOFError of recvuntil is caught and the loop carries on.
RecvPromptSwallowEOF(here, next) ==
  /\ pc = here
  /\ \/ /\ HasDelim(out, INPUT_YOUR_MOVE)
        /\ shown' = Append(shown, Printed(RecvUntil(out, INPUT_YOUR_MOVE)))
        /\ out' = AfterRecvUntil(out, INPUT_YOUR_MOVE)
        /\ trace' = Append(trace, "prompt")
        /\ pc' = next
        /\ UNCHANGED <<err, failedAt>>
     \/ /\ ~HasDelim(out, INPUT_YOUR_MOVE)
        /\ tgt = "exited"
        /\ pc' = next
        /\ UNCHANGED <<err, failedAt, shown, out, trace>>
  /\ UNCHANGED <<exists, file, count, lines, i, x, drained, chan, sent, tgt, prompts,
                 summary, tgtFault, opQuit, gen, prev, file0, appended, captures>>

\* Faulty variant: recvuntil(INPUT_YOUR_MOVE, drop=True): the delimiter is
\* consumed and not printed.
RecvPromptDropDelim(here, next) ==
  /\ pc = here
  /\ \/ /\ HasDelim(out, INPUT_YOUR_MOVE)
        /\ shown' = Append(shown, Printed(SubSeq(out, 1, FindSeq(out, INPUT_YOUR_MOVE) - 1)))
        /\ out' = AfterRecvUntil(out, INPUT_YOUR_MOVE)
        /\ trace' = Append(trace, "prompt")
        /\ pc' = next
        /\ UNCHANGED <<err, failedAt>>
     \/ /\ ~HasDelim(out, INPUT_YOUR_MOVE)
        /\ tgt = "exited"
        /\ Raise("EOFError")
        /\ UNCHANGED <<shown, out, trace>>
  /\ UNCHANGED <<exists, file, count, lines, i, x, drained, chan, sent, tgt, prompts,
                 summary, tgtFault, opQuit, gen, prev, file0, appended, captures>>

\* print(io.recvuntil(INPUT_YOUR_MOVE).decode("utf-8")) at position here,
\* continuing at position next.
RecvPrompt(here, next) ==
  /\ pc = here
  /\ \/ /\ HasDelim(out, INPUT_YOUR_MOVE)
        /\ shown' = Append(shown, Printed(RecvUntil(out, INPUT_YOUR_MOVE)))
        /\ out' = AfterRecvUntil(out, INPUT_YOUR_MOVE)
        /\ trace' = Append(trace, "prompt")
        /\ pc' = next
        /\ UNCHANGED <<err, failedAt>>
     \/ /\ ~HasDelim(out, INPUT_YOUR_MOVE)
        /\ tgt = "exited"
        /\ Raise("EOFError")
        /\ UNCHANGED <<shown, out, trace>>
  /\ UNCHANGED <<exists, file, count, lines, i, x, drained, chan, sent, tgt, prompts,
                 summary, tgtFault, opQuit, gen, prev, file0, appended, captures>>

\* load(), line 44
PlaybackRecv == RecvPrompt("pb_recv", "pb_send")

\* Faulty variant: load() without its "count += 1".
PlaybackSendNoCount ==
  /\ pc = "pb_send"
  /\ \/ /\ tgt = "running"
        /\ sent' = Append(sent, Strip(x))
        /\ trace' = Append(trace, "send")
        /\ count' = count
        /\ pc' = ForNext(lines, i, count')
        /\ x' = IF i >= Len(lines) THEN x ELSE lines[i + 1]
        /\ i' = IF i >= Len(lines) THEN i ELSE i + 1
        /\ UNCHANGED <<err, failedAt>>
     \/ /\ tgt = "exited"
        /\ Raise("BrokenPipeError")
        /\ UNCHANGED <<sent, trace, count, x, i>>
  /\ UNCHANGED <<lines, exists, file, drained, chan, out, tgt, prompts, summary, tgtFault,
                 opQuit, shown, gen, prev, file0, appended, captures>>

\* Faulty variant: load() logs each replayed move to the transcript, as
\* store() does.
PlaybackSendAlsoLogs ==
  /\ pc = "pb_send"
  /\ \/ /\ tgt = "running"
        /\ sent' = Append(sent, Strip(x))
        /\ trace' = Append(trace, "send")
        /\ count' = count + 1
        /\ pc' = ForNext(lines, i, count')
        /\ x' = IF i >= Len(lines) THEN x ELSE lines[i + 1]
        /\ i' = IF i >= Len(lines) THEN i ELSE i + 1
        /\ file' = WriteAppend(file, Strip(x))
        /\ UNCHANGED <<err, failedAt>>
     \/ /\ tgt = "exited"
        /\ Raise("BrokenPipeError")
        /\ UNCHANGED <<sent, trace, count, x, i, file>>
  /\ UNCHANGED <<lines, exists, drained, chan, out, tgt, prompts, summary, tgtFault,
                 opQuit, shown, gen, prev, file0, appended, captures>>

\* load(), lines 48-50: io.sendline(x.strip()), count += 1, the next step of
\* the for loop and, after the loop, check_end().
PlaybackSend ==
  /\ pc = "pb_send"
  /\ \/ /\ tgt = "running"
        /\ sent' = Append(sent, Strip(x))
        /\ trace' = Append(trace, "send")
        /\ count' = count + 1
        /\ pc' = ForNext(lines, i, count')
        /\ x' = IF i >= Len(lines) THEN x ELSE lines[i + 1]
        /\ i' = IF i >= Len(lines) THEN i ELSE i + 1
        /\ UNCHANGED <<err, failedAt>>
     \/ /\ tgt = "exited"
        /\ Raise("BrokenPipeError")
        /\ UNCHANGED <<sent, trace, count, x, i>>
  /\ UNCHANGED <<lines, exists, file, drained, chan, out, tgt, prompts, summary, tgtFault,
                 opQuit, shown, gen, prev, file0, appended, captures>>

\* check_end(), lines 33-34: one pass of the loop over range(7).
Drain ==
  /\ pc = "drain"
  /\ \/ /\ HasLine(out)
        /\ shown' = Append(shown, Printed(DropNewlines(RecvLine(out))))
        /\ out' = AfterRecvLine(out)
        /\ trace' = Append(trace, "line")
        /\ drained' = drained + 1
        /\ pc' = IF drained' = SummaryLines THEN "close" ELSE "drain"
        /\ UNCHANGED <<err, failedAt>>
     \/ /\ ~HasLine(out)
        /\ tgt = "exited"
        /\ Raise("EOFError")
        /\ UNCHANGED <<shown, out, trace, drained>>
  /\ UNCHANGED <<exists, file, count, lines, i, x, chan, sent, tgt, prompts, summary,
                 tgtFault, opQuit, gen, prev, file0, appended, captures>>

\* Faulty variant: check_end() without its sys.exit(): it returns to
\* __main__, which calls store().
CloseNoExit ==
  /\ pc = "close"
  /\ chan' = "closed"
  /\ tgt' = "exited"
  /\ trace' = trace \o <<"close">>
  /\ pc' = "cap_recv"
  /\ UNCHANGED <<exists, file, err, failedAt, count, lines, i, x, drained, sent, out,
                 prompts, summary, tgtFault, opQuit, shown, gen, prev, file0, appended, captures>>

\* check_end(), lines 35-37: io.close() and sys.exit().
CloseExit ==
  /\ pc = "close"
  /\ chan' = "closed"
  /\ tgt' = "exited"
  /\ trace' = trace \o <<"close", "exit">>
  /\ pc' = "exited"
  /\ UNCHANGED <<exists, file, err, failedAt, count, lines, i, x, drained, sent, out,
                 prompts, summary, tgtFault, opQuit, shown, gen, prev, file0, appended, captures>>

\* store(), line 55
CaptureRecv == RecvPrompt("cap_recv", "cap_input")

\* store(), line 56: x = input()
CaptureInput ==
  /\ pc = "cap_input"
  /\ \/ /\ captures < MaxCapture
        /\ \E line \in Inputs : x' = line
        /\ captures' = captures + 1
        /\ trace' = Append(trace, "input")
        /\ pc' = "cap_send"
        /\ UNCHANGED <<err, failedAt, opQuit>>
     \/ /\ opQuit' = TRUE
        /\ Raise("EOFError")
        /\ UNCHANGED <<x, captures, trace>>
  /\ UNCHANGED <<exists, file, count, lines, i, drained, chan, sent, out, tgt, prompts,
                 summary, tgtFault, shown, gen, prev, file0, appended>>

\* Faulty variant: the failure of sendline is caught and the turn carries on
\* to the write.
CaptureSendSwallow ==
  /\ pc = "cap_send"
  /\ \/ /\ tgt = "running"
        /\ sent' = Append(sent, Strip(x))
        /\ trace' = Append(trace, "send")
        /\ pc' = "cap_append"
        /\ UNCHANGED <<err, failedAt>>
     \/ /\ tgt = "exited"
        /\ pc' = "cap_append"
        /\ UNCHANGED <<sent, trace, err, failedAt>>
  /\ UNCHANGED <<exists, file, count, lines, i, x, drained, chan, out, tgt, prompts,
                 summary, tgtFault, opQuit, shown, gen, prev, file0, appended, captures>>

\* store(), line 59: io.sendline(x.strip().encode())
CaptureSend ==
  /\ pc = "cap_send"
  /\ \/ /\ tgt = "running"
        /\ sent' = Append(sent, Strip(x))
        /\ trace' = Append(trace, "send")
        /\ pc' = "cap_append"
        /\ UNCHANGED <<err, failedAt>>
     \/ /\ tgt = "exited"
        /\ Raise("BrokenPipeError")
        /\ UNCHANGED <<sent, trace>>
  /\ UNCHANGED <<exists, file, count, lines, i, x, drained, chan, out, tgt, prompts,
                 summary, tgtFault, opQuit, shown, gen, prev, file0, appended, captures>>

\* Faulty variant: the write records the operator's line as typed, untrimmed.
CaptureAppendRaw ==
  /\ pc = "cap_append"
  /\ file' = WriteAppend(file, x)
  /\ exists' = TRUE
  /\ appended' = Append(appended, x)
  /\ trace' = Append(trace, "append")
  /\ pc' = "cap_recv"
  /\ UNCHANGED <<err, failedAt, count, lines, i, x, drained, chan, sent, out, tgt,
                 prompts, summary, tgtFault, opQuit, shown, gen, prev, file0, captures>>

\* store(), lines 60-61: with open(log_path, "a") as f: f.write("\n" + x.strip())
CaptureAppend ==
  /\ pc = "cap_append"
  /\ file' = WriteAppend(file, Strip(x))
  /\ exists' = TRUE
  /\ appended' = Append(appended, Strip(x))
  /\ trace' = Append(trace, "append")
  /\ pc' = "cap_recv"
  /\ UNCHANGED <<err, failedAt, count, lines, i, x, drained, chan, sent, out, tgt,
                 prompts, summary, tgtFault, opQuit, shown, gen, prev, file0, captures>>

\* ----------------------------------------------------------------- target
\* The target renders its state and asks for the next move, once per move.
TargetPrompt ==
  /\ tgt = "running"
  /\ summary = 0
  /\ prompts = Len(sent)
  /\ out' = out \o Board(sent) \o INPUT_YOUR_MOVE
  /\ prompts' = prompts + 1
  /\ tgtFault' = (tgtFault \/ Len(sent) >= Limit)
  /\ UNCHANGED <<harnessVars, tgt, summary, file0>>

\* After the last move the target prints its summary, line by line.
TargetSummary ==
  /\ tgt = "running"
  /\ prompts = Len(sent)
  /\ Len(sent) >= Limit
  /\ summary < SummaryLines
  /\ out' = out \o ScoreLine
  /\ summary' = summary + 1
  /\ UNCHANGED <<harnessVars, tgt, prompts, tgtFault, file0>>

\* ... and exits.
TargetExit ==
  /\ tgt = "running"
  /\ summary = SummaryLines
  /\ tgt' = "exited"
  /\ UNCHANGED <<harnessVars, out, prompts, summary, tgtFault, file0>>

\* The target dies before it has printed its summary.
TargetDie ==
  /\ tgt = "running"
  /\ summary < SummaryLines
  /\ tgt' = "exited"
  /\ tgtFault' = TRUE
  /\ UNCHANGED <<harnessVars, out, prompts, summary, file0>>

\* ------------------------------------------------------------- the operator
\* The position the harness is at, or was at when it crashed.
Where == IF pc = "crashed" THEN failedAt ELSE pc

\* load() has left its for loop.
PlaybackDone == Where \notin {"start", "pb_recv", "pb_send"}


\* The session has ended (sys.exit() or a traceback) and the operator runs
\* the script again: __main__ spawns a fresh target and calls load() on the
\* file as the ended session left it.
Restart ==
  /\ pc \in {"crashed", "exited"}
  /\ gen < MaxRestarts
  /\ file0 \in ShortFiles
  /\ gen' = gen + 1
  /\ prev' = [file0 |-> file0, sent |-> sent, appended |-> appended,
              replayed |-> PlaybackDone,
              shown |-> SubSeq(shown, 1, IF Len(shown) <= Len(lines)
                                           THEN Len(shown) ELSE Len(lines))]
  /\ file0' = file
  /\ pc' = "start"
  /\ err' = "none"
  /\ failedAt' = "none"
  /\ count' = 0
  /\ lines' = <<>>
  /\ i' = 0
  /\ x' = <<>>
  /\ drained' = 0
  /\ chan' = "open"
  /\ sent' = <<>>
  /\ out' = <<>>
  /\ tgt' = "running"
  /\ prompts' = 0
  /\ summary' = 0
  /\ tgtFault' = FALSE
  /\ opQuit' = FALSE
  /\ shown' = <<>>
  /\ trace' = <<>>
  /\ appended' = <<>>
  /\ UNCHANGED <<exists, file, captures>>

Harness ==
  \/ Load
  \/ PlaybackRecv
  \/ PlaybackSend
  \/ Drain
  \/ CloseExit
  \/ CaptureRecv
  \/ CaptureInput
  \/ CaptureSend
  \/ CaptureAppend

Target ==
  \/ TargetPrompt
  \/ TargetSummary
  \/ TargetExit
  \/ TargetDie

Next ==
  \/ Load
  \/ PlaybackRecv
  \/ PlaybackSend
  \/ Drain
  \/ CloseExit
  \/ CaptureRecv
  \/ CaptureInput
  \/ CaptureSend
  \/ CaptureAppend
  \/ TargetPrompt
  \/ TargetSummary
  \/ TargetExit
  \/ TargetDie
  \/ Restart

Spec == Init /\ [][Next]_vars

\* The harness runs whenever it is not blocked, and a well-behaved target
\* answers: weak fairness of the harness's steps and of the target's output.
FairSpec ==
  /\ Init
  /\ [][Next]_vars
  /\ WF_vars(Harness)
  /\ WF_vars(TargetPrompt)
  /\ WF_vars(TargetSummary)
  /\ WF_vars(TargetExit)

\* ------------------------------------------------------- claim vocabulary
PlaybackPcs == {"pb_recv", "pb_send"}
CapturePcs == {"cap_recv", "cap_input", "cap_send", "cap_append"}
TerminatedPcs == {"drain", "close", "exited"}

\* The moves a sequence of file lines stands for.
Moves(ls) == [k \in 1..Len(ls) |-> Strip(ls[k])]

IsPrefix(s, t) == Len(s) <= Len(t) /\ SubSeq(t, 1, Len(s)) = s

\* The target and the operator have behaved so far.
WellBehaved == ~tgtFault /\ ~opQuit

\* --------------------------------------------------------------------- C1
\* C1: in every reachable state at most Limit (96) moves have been sent, and
\* once Limit moves have been sent the harness is in the final drain (or
\* past it, or failed in it), never at another prompt read, send or append.
C1_StopsAtLimit ==
  /\ Len(sent) <= Limit
  /\ Len(sent) = Limit => Where \in TerminatedPcs

\* --------------------------------------------------------------------- C2
\* C2: a session whose transcript file does not exist behaves like one whose
\* file exists and is empty: load surfaces no failure, nothing is sent in
\* Playback, and the harness goes on to Capture with count = 0.
C2_MissingFileIsEmpty ==
  (gen = 0 /\ (~exists \/ file0 = <<>>) /\ pc # "start")
    => /\ Where \in CapturePcs
       /\ count = 0
       /\ Len(sent) = Len(appended) + (IF Where = "cap_append" THEN 1 ELSE 0)

\* --------------------------------------------------------------------- C3
\* C3: round trip of the store: when the previous session started from an
\* empty file and appended exactly one move m, the load of the next session
\* yields exactly the one-element sequence <<m>>.
C3_RoundTrip ==
  (gen > 0 /\ exists /\ prev.file0 = <<>> /\ Len(prev.appended) = 1 /\ pc # "start")
    => Moves(lines) = prev.appended

\* --------------------------------------------------------------------- C4
\* C4: restart fidelity: when the previous session replayed its whole file,
\* sent the moves S in total and ended, the next session's Playback sends
\* exactly S, in order, and leaves its loop with count = Len(S) = the number
\* of lines of the file.
C4_RestartReplays ==
  (gen > 0 /\ exists /\ prev.replayed /\ PlaybackDone)
    => /\ SubSeq(sent, 1, Len(lines)) = prev.sent
       /\ count = Len(prev.sent)
       /\ Len(lines) = Len(prev.sent)

\* --------------------------------------------------------------------- C5
RECURSIVE Flatten(_)
\* The concatenation of a sequence of sequences.
Flatten(ss) == IF ss = <<>> THEN <<>> ELSE Head(ss) \o Flatten(Tail(ss))

\* The file after the writes recorded in appended, each a newline and a move.
AfterAppends ==
  file0 \o Flatten([k \in 1..Len(appended) |-> <<NL>> \o appended[k]])

WaitingOnClosedStream ==
  pc \in {"pb_recv", "cap_recv"} /\ tgt = "exited" /\ ~HasDelim(out, INPUT_YOUR_MOVE)

\* C5: when the target has closed its output while the harness waits for a
\* prompt, the harness's next step ends the session with an EOFError and
\* sends and appends nothing; a crashed session sends and appends nothing
\* more; and the file of a session that ended so is the file it started with
\* followed by the complete writes made before, nothing partial.
C5_EofEndsSession ==
  /\ [][(WaitingOnClosedStream /\ pc' # pc)
          => (pc' = "crashed" /\ err' = "EOFError" /\ sent' = sent /\ file' = file)]_vars
  /\ [][(pc = "crashed" /\ gen' = gen)
          => (pc' = "crashed" /\ sent' = sent /\ file' = file)]_vars
  /\ [](pc = "crashed" /\ err = "EOFError" => file = AfterAppends)

C5_Witness ==
  /\ pc = "crashed"
  /\ err = "EOFError"
  /\ failedAt = "cap_recv"
  /\ Len(appended) = 2
  /\ file # file0

\* --------------------------------------------------------------------- C6
\* The prompt receives and the sends of the session, in order.
PromptsAndSends == SelectSeq(trace, LAMBDA e : e \in {"prompt", "send"})

\* C6: strict alternation: the prompt receives and the sends of a session,
\* in Playback, in Capture and across the switch, alternate and start with a
\* prompt receive: every send has exactly one prompt receive between it and
\* the send before it (or the start of the session).
C6_Alternation ==
  \A k \in 1..Len(PromptsAndSends) :
    PromptsAndSends[k] = IF k % 2 = 1 THEN "prompt" ELSE "send"

C6_Witness ==
  /\ Len(lines) = 2
  /\ Len(sent) = 4
  /\ Len(appended) = 2

\* --------------------------------------------------------------------- C7
\* C7: count is the number of moves sent so far in this session, in Playback
\* and in Capture alike.
C7_CountIsSent == count = Len(sent)

\* --------------------------------------------------------------------- C8
\* C8: with a well-behaved target and operator, a session started on a
\* transcript of fewer than Limit lines ends only by the turn-count limit:
\* it never ends in a failure.  (A crashed session never reaches exited, so
\* the liveness claim implies this.)
C8_EndsByLimit ==
  (WellBehaved /\ exists /\ pc # "start" /\ Len(lines) < Limit) => pc # "crashed"

\* --------------------------------------------------------------------- C9
Min(a, b) == IF a <= b THEN a ELSE b

\* C9: for a transcript of n < Limit lines, Playback is n rounds of one
\* prompt read and then the send of the next stored line, trimmed, in file
\* order, with no operator input and no write to the file; after the n-th
\* send the harness is in Capture with count = n, where it reads the next
\* prompt before it reads the operator's line.
C9_PlaybackOrder ==
  LET L == FileLines(file0)
      n == Len(L)
  IN (exists /\ pc # "start" /\ n < Limit)
       => /\ \A k \in 1..Min(Len(sent), n) : sent[k] = Strip(L[k])
          /\ \A j \in 1..Min(Len(trace), 2 * n) :
               trace[j] = IF j % 2 = 1 THEN "prompt" ELSE "send"
          /\ Where \in PlaybackPcs
               => file = file0 /\ appended = <<>> /\ Len(sent) < n /\ count = Len(sent)
          /\ PlaybackDone => Where \in CapturePcs /\ count = n /\ Len(sent) >= n
          /\ Len(trace) > 2 * n => trace[2 * n + 1] = "prompt"
          /\ Len(trace) > 2 * n + 1 => trace[2 * n + 2] = "input"

\* The transcript a1, b3 of the example, replayed up to the operator's turn.
C9_Witness ==
  /\ file0 = <<"a", NL, "b">>
  /\ pc = "cap_input"
  /\ count = 2
  /\ sent = << <<"a">>, <<"b">> >>
  /\ trace = <<"prompt", "send", "prompt", "send", "prompt">>

\* -------------------------------------------------------------------- C10
\* C10: the transcript is an append-only log: every step leaves the file's
\* previous content as a prefix of the new one, Playback never changes it,
\* and the only step that changes it is the write of store, which adds one
\* newline followed by the move just sent, a move holding no newline.
C10_AppendOnly ==
  [][/\ IsPrefix(file, file')
     /\ Where \in PlaybackPcs \cup {"start"} => file' = file
     /\ file' # file
          => /\ pc = "cap_append"
             /\ file' = file \o <<NL>> \o sent[Len(sent)]
             /\ \A k \in 1..Len(sent[Len(sent)]) : sent[Len(sent)][k] # NL]_vars

C10_Witness ==
  /\ file0 # <<>>
  /\ Len(appended) = 2
  /\ appended[1] # <<>>
  /\ pc = "cap_recv"

\* -------------------------------------------------------------------- C11
\* C11: replay determinism: when the previous session was a run on the same
\* transcript (it wrote nothing), this session's Playback iterates over the
\* same lines, sends the same moves and prints the same prompt texts, step
\* for step, as far as both runs got.
C11_ReplayDeterminism ==
  (gen > 0 /\ exists /\ pc # "start" /\ prev.appended = <<>>)
    => /\ lines = FileLines(prev.file0)
       /\ \A k \in 1..Min(Len(lines), Min(Len(sent), Len(prev.sent))) :
            sent[k] = prev.sent[k]
       /\ \A k \in 1..Min(Len(lines), Min(Len(shown), Len(prev.shown))) :
            shown[k] = prev.shown[k]

\* Two runs on a transcript of two different moves, both replayed in full.
C11_Witness ==
  /\ gen > 0
  /\ prev.appended = <<>>
  /\ Len(prev.sent) = 2
  /\ Len(sent) = 2
  /\ sent[1] # sent[2]
  /\ Len(shown) = 2
  /\ shown[1] # shown[2]

\* -------------------------------------------------------------------- C12
\* The events of the session after the Playback rounds.
AfterPlayback == SubSeq(trace, 2 * Len(lines) + 1, Len(trace))

\* C12: Terminated is absorbing and ordered: once check_end() fires, the
\* harness's events are the reads of the trailing lines, SummaryLines (7) of
\* them before the one close of the channel, and then the exit; from then on
\* the harness stays in the drain, the close or the exit (or fails in the
\* drain), and reads no prompt, sends no move, reads no operator input and
\* writes nothing to the transcript.
C12_TerminatedAbsorbing ==
  /\ [](Where \in TerminatedPcs
          => /\ count >= Limit
             /\ drained <= SummaryLines
             /\ pc \in {"close", "exited"} => drained = SummaryLines
             /\ (chan = "closed") <=> (pc = "exited")
             /\ AfterPlayback = [k \in 1..drained |-> "line"]
                                  \o (IF pc = "exited" THEN <<"close", "exit">> ELSE <<>>))
  /\ [][(Where \in TerminatedPcs /\ gen' = gen)
          => /\ Where' \in TerminatedPcs
             /\ sent' = sent
             /\ file' = file
             /\ captures' = captures
             /\ appended' = appended]_vars

C12_Witness ==
  /\ pc = "exited"
  /\ drained = SummaryLines
  /\ chan = "closed"
  /\ Len(sent) = Limit

\* -------------------------------------------------------------------- C13
\* The events of one Capture turn, in order.
CaptureTurn == <<"prompt", "input", "send", "append">>

\* The events of the turn the harness is in that have happened.
TurnOffset ==
  CASE Where = "cap_recv" -> 0
    [] Where = "cap_input" -> 1
    [] Where = "cap_send" -> 2
    [] Where = "cap_append" -> 3
    [] OTHER -> 0

\* C13: in Capture every turn is, in this order, one prompt read, one read
\* of the operator's line, one send of the trimmed line and one append to
\* the transcript; the k-th appended move is the trimmed move sent in the
\* k-th turn; and whenever the harness is back at the prompt read the file
\* is the file as it was when Capture started followed by one newline and
\* move per move sent in Capture.
C13_CaptureTurnOrder ==
  Where \in CapturePcs
    => /\ Len(AfterPlayback) = 4 * Len(appended) + TurnOffset
       /\ \A k \in 1..Len(AfterPlayback) :
            AfterPlayback[k] = CaptureTurn[((k - 1) % 4) + 1]
       /\ Len(sent) = Len(lines) + Len(appended) + (IF Where = "cap_append" THEN 1 ELSE 0)
       /\ \A k \in 1..Len(appended) :
            /\ appended[k] = sent[Len(lines) + k]
            /\ appended[k] = Strip(appended[k])
       /\ Where = "cap_append" => sent[Len(sent)] = Strip(x)
       /\ Where = "cap_recv" => file = AfterAppends

C13_Witness ==
  /\ pc = "cap_recv"
  /\ Len(lines) = 2
  /\ Len(appended) = 2
  /\ appended[1] = <<"b">>
  /\ x = <<SP, "b", SP>>
  /\ Len(trace) = 12

\* -------------------------------------------------------------------- C14
\* C14: the termination check is made after each send of Playback: on a
\* transcript of more than Limit (96) lines, once the 96th stored move has
\* been sent the harness is in the final drain (or past it, or failed in
\* it), and no line after the 96th is taken up or sent.
C14_CheckAfterEachSend ==
  (Len(lines) > Limit)
    => /\ i <= Limit
       /\ Len(sent) <= Limit
       /\ count = Limit => Where \in TerminatedPcs

\* -------------------------------------------------------------------- C15
\* The prompts printed so far (the rest of shown is the final drain).
NPrompts == Len(shown) - drained

\* The text the target wrote before its k-th delimiter.
PromptText(k) == IF k = 1 THEN BoardText ELSE Board(<<sent[k - 1]>>)

PhysicalLines(f) ==
  Cardinality({k \in 1..Len(f) : f[k] = NL})
    + (IF f # <<>> /\ f[Len(f)] # NL THEN 1 ELSE 0)

RECURSIVE ConcatRange(_, _, _)
\* ss[a] \o ... \o ss[b], computed by halves.
ConcatRange(ss, a, b) ==
  IF a > b THEN <<>>
  ELSE IF a = b THEN ss[a]
  ELSE LET m == (a + b) \div 2
       IN ConcatRange(ss, a, m) \o ConcatRange(ss, m + 1, b)

\* C16: Playback treats every physical line of the file as one move, blank
\* and whitespace-only lines included: the lines iterated over are the
\* file cut after each newline, one per physical line; each is sent
\* trimmed, a blank line as the empty move; and when the loop has ended,
\* after k lines, it has made exactly k prompt reads and k sends and the
\* counter is k.
C16_EveryLineIsAMove ==
  (exists /\ pc # "start")
    => /\ Len(lines) = PhysicalLines(file0)
       /\ ConcatRange(lines, 1, Len(lines)) = file0
       /\ \A k \in 1..Len(lines) :
            /\ lines[k] # <<>>
            /\ \A j \in 1..(Len(lines[k]) - 1) : lines[k][j] # NL
            /\ k < Len(lines) => lines[k][Len(lines[k])] = NL
       /\ \A k \in 1..Min(Len(sent), Len(lines)) :
            /\ sent[k] = Strip(lines[k])
            /\ (\A j \in 1..Len(lines[k]) : lines[k][j] \in Whitespace) => sent[k] = <<>>
       /\ PlaybackDone
            => /\ count = Len(lines)
               /\ Len(sent) >= Len(lines)
               /\ Len(trace) >= 2 * Len(lines)
               /\ \A j \in 1..(2 * Len(lines)) :
                    trace[j] = IF j % 2 = 1 THEN "prompt" ELSE "send"
               /\ Len(trace) > 2 * Len(lines) => trace[2 * Len(lines) + 1] # "send"

C16_Witness ==
  /\ file0 = <<NL, "a">>
  /\ PlaybackDone
  /\ count = 2
  /\ sent = << <<>>, <<"a">> >>
  /\ SubSeq(trace, 1, 4) = <<"prompt", "send", "prompt", "send">>

\* -------------------------------------------------------------------- C17
\* C17: a move whose send fails is never recorded: when the target has
\* exited, the send of a Capture turn ends the session with the
\* broken-pipe error and leaves the moves sent and the file as they were;
\* the file of a session that ended so is the file before that turn; and
\* every append of the session comes right after the send of the same move.
C17_FailedSendNotRecorded ==
  /\ [][(pc = "cap_send" /\ tgt = "exited" /\ pc' # pc)
          => /\ pc' = "crashed"
             /\ err' = "BrokenPipeError"
             /\ file' = file
             /\ sent' = sent
             /\ appended' = appended]_vars
  /\ []((pc = "crashed" /\ failedAt = "cap_send")
          => /\ file = AfterAppends
             /\ Len(sent) = Len(lines) + Len(appended))
  /\ [](\A j \in 1..Len(trace) : trace[j] = "append" => j > 1 /\ trace[j - 1] = "send")
  /\ [](\A k \in 1..Len(appended) :
          Len(lines) + k <= Len(sent) /\ appended[k] = sent[Len(lines) + k])

C17_Witness ==
  /\ pc = "crashed"
  /\ failedAt = "cap_send"
  /\ err = "BrokenPipeError"
  /\ Len(appended) = 1
  /\ Strip(x) # <<>>
  /\ file = file0 \o <<NL>> \o appended[1]

\* -------------------------------------------------------------------- C18
\* C18: a session started on a transcript of Limit (96) or more lines never
\* enters Capture: it reads no operator input and appends nothing, and once
\* Playback is over it is in the drain, the close or the exit (and, on
\* exactly Limit lines with a well-behaved target, it does not fail).  A
\* session started on fewer than Limit lines is in Capture once Playback is
\* over, and with a well-behaved target Playback neither fails nor stops
\* before that.
C18_CaptureIffShort ==
  (exists /\ pc # "start")
    => /\ Len(lines) >= Limit
            => /\ Where \notin CapturePcs
               /\ appended = <<>>
               /\ file = file0
               /\ \A j \in 1..Len(trace) : trace[j] \notin {"input", "append"}
               /\ PlaybackDone => Where \in TerminatedPcs
               /\ (Len(lines) = Limit /\ WellBehaved) => pc # "crashed"
       /\ Len(lines) < Limit
            => /\ PlaybackDone => Where \in CapturePcs
               /\ (WellBehaved /\ Where \in PlaybackPcs)
                    => /\ pc # "crashed"
                       /\ ENABLED (PlaybackRecv \/ PlaybackSend \/ TargetPrompt)

C18_Witness ==
  /\ Len(lines) = Limit
  /\ WellBehaved
  /\ pc = "exited"
  /\ Len(sent) = Limit
  /\ captures = 0
  /\ file = file0

====
